---- MODULE Spec2Model ----
(***************************************************************************)
(* sonata/formatting.py: the format strings used to display song info.     *)
(*                                                                         *)
(* A Python string is a sequence of one-character strings, so "%A{x}" is   *)
(* <<"%", "A", "{", "x", "}">>.  An item is a function from the metadata   *)
(* keys it holds to their values; a value is a string (str(value) of the   *)
(* source is then the value itself).                                       *)
(***************************************************************************)
EXTENDS Naturals, Sequences, FiniteSets, TLC

VARIABLES
    format,         \* parse / _return_substrings: the template given
    item,           \* parse: the item given
    use_escape_html,\* parse: the escape flag given
    pc,             \* position of the call under way
    substrings,     \* _return_substrings: the list returned
    outcome,        \* parse: [exc, val], the exception raised ("" for none) and the string returned
    title_default,  \* formatcodes[T].default: the field TitleFormatCode.format overwrites
    cf,             \* a CachingFormatter: [_format, _escape]
    meta,           \* the live item instances: instance -> its metadata now
    made,           \* the item instances created so far
    _cache,         \* CachingFormatter._cache: live instance -> cached result
    renders,        \* probe: instance -> number of times _format_func ran for it
    returned,       \* probe: instance -> the strings format has returned for it
    last,           \* the last format call: [inst, hit, exc, val]
    columns,        \* a ColumnFormatting: [_format, sub_formatters, columns_names]
    yielded,        \* __iter__: the pairs yielded so far
    th              \* renders of %T under way: thread -> [pc, item, path, exc, ret]

renderVars == <<format, item, use_escape_html, substrings, outcome>>
cacheVars  == <<cf, meta, made, _cache, renders, returned, last>>
columnVars == <<columns, yielded>>
vars == <<format, item, use_escape_html, pc, substrings, outcome, title_default,
          cf, meta, made, _cache, renders, returned, last, columns, yielded, th>>

-----------------------------------------------------------------------------
(* Strings *)

Digits == {"0", "1", "2", "3", "4", "5", "6", "7", "8", "9"}

\* Index of the first c in s, 0 when there is none (str.find + 1).
RECURSIVE FindFrom(_, _, _)
FindFrom(s, c, i) ==
    IF i > Len(s) THEN 0
    ELSE IF s[i] = c THEN i
    ELSE FindFrom(s, c, i + 1)

Find(s, c) == FindFrom(s, c, 1)

\* Index of the last c in s, 0 when there is none (str.rfind + 1).
RECURSIVE RFindFrom(_, _, _)
RFindFrom(s, c, i) ==
    IF i = 0 THEN 0
    ELSE IF s[i] = c THEN i
    ELSE RFindFrom(s, c, i - 1)

RFind(s, c) == RFindFrom(s, c, Len(s))

\* str.partition(c): <<before, separator, after>>; <<s, "", "">> without c.
partition(s, c) ==
    LET i == Find(s, c)
    IN  IF i = 0 THEN <<s, <<>>, <<>>>>
        ELSE <<SubSeq(s, 1, i - 1), <<c>>, SubSeq(s, i + 1, Len(s))>>

startswith(s, p) == Len(s) >= Len(p) /\ SubSeq(s, 1, Len(p)) = p

endswith(s, p) == Len(s) >= Len(p) /\ SubSeq(s, Len(s) - Len(p) + 1, Len(s)) = p

\* str.isdigit(): not empty and every character a digit.
isdigit(s) == Len(s) > 0 /\ \A i \in 1..Len(s) : s[i] \in Digits

RECURSIVE Zeros(_)
Zeros(n) == IF n = 0 THEN <<>> ELSE <<"0">> \o Zeros(n - 1)

\* str.zfill(width): zeros on the left up to width, after a leading sign.
zfill(s, width) ==
    IF Len(s) >= width THEN s
    ELSE IF Len(s) > 0 /\ s[1] \in {"+", "-"}
         THEN <<s[1]>> \o Zeros(width - Len(s)) \o Tail(s)
         ELSE Zeros(width - Len(s)) \o s

\* "".join(parts)
RECURSIVE join(_)
join(parts) == IF parts = <<>> THEN <<>> ELSE Head(parts) \o join(Tail(parts))

\* s with its trailing c's removed (str.rstrip(c)).
RECURSIVE rstrip(_, _)
rstrip(s, c) ==
    IF Len(s) > 0 /\ s[Len(s)] = c THEN rstrip(SubSeq(s, 1, Len(s) - 1), c) ELSE s

\* posixpath.basename: what follows the last "/".
basename(p) == SubSeq(p, RFind(p, "/") + 1, Len(p))

\* posixpath.dirname: what precedes the last "/", its trailing slashes removed
\* unless it is made of slashes only.
dirname(p) ==
    LET head == SubSeq(p, 1, RFind(p, "/"))
    IN  IF Len(head) > 0 /\ (\E i \in 1..Len(head) : head[i] # "/")
        THEN rstrip(head, "/")
        ELSE head

\* int(s) of a string of digits.
DigitValue(c) ==
    CASE c = "0" -> 0 [] c = "1" -> 1 [] c = "2" -> 2 [] c = "3" -> 3 [] c = "4" -> 4
      [] c = "5" -> 5 [] c = "6" -> 6 [] c = "7" -> 7 [] c = "8" -> 8 [] c = "9" -> 9

RECURSIVE int(_)
int(s) == IF s = <<>> THEN 0 ELSE 10 * int(SubSeq(s, 1, Len(s) - 1)) + DigitValue(s[Len(s)])

DigitChar(d) ==
    CASE d = 0 -> "0" [] d = 1 -> "1" [] d = 2 -> "2" [] d = 3 -> "3" [] d = 4 -> "4"
      [] d = 5 -> "5" [] d = 6 -> "6" [] d = 7 -> "7" [] d = 8 -> "8" [] d = 9 -> "9"

\* str(n) of a natural number.
RECURSIVE str(_)
str(n) == IF n < 10 THEN <<DigitChar(n)>> ELSE str(n \div 10) \o <<DigitChar(n % 10)>>

\* misc.convert_time(seconds): "mm:ss", or "hh:mm:ss" from one hour on.
convert_time(seconds) ==
    LET h == seconds \div 3600
        m == (seconds % 3600) \div 60
        s == seconds % 60
        mmss == zfill(str(m), 2) \o <<":">> \o zfill(str(s), 2)
    IN  IF h > 0 THEN zfill(str(h), 2) \o <<":">> \o mmss ELSE mmss

\* misc.escape_html(text): & < > replaced by their entities.
RECURSIVE escape_html(_)
escape_html(s) ==
    IF s = <<>> THEN <<>>
    ELSE (CASE Head(s) = "&" -> <<"&", "a", "m", "p", ";">>
            [] Head(s) = "<" -> <<"&", "l", "t", ";">>
            [] Head(s) = ">" -> <<"&", "g", "t", ";">>
            [] OTHER -> <<Head(s)>>) \o escape_html(Tail(s))

\* re.match(r"^(http://|ftp://)", path)
full_path(path) ==
    \/ startswith(path, <<"h", "t", "t", "p", ":", "/", "/">>)
    \/ startswith(path, <<"f", "t", "p", ":", "/", "/">>)

-----------------------------------------------------------------------------
(* The format codes *)

\* A column of None (the Elapsed code has no column label).
None == <<"None">>

Unknown == <<"U", "n", "k", "n", "o", "w", "n">>

\* The table, in the order of the source.  cls is the class of the definition;
\* padding is NumFormatCode's, func PathFormatCode's.
formatcodes == <<
    [cls |-> "FormatCode", code |-> "A", column |-> <<"A", "r", "t", "i", "s", "t">>,
     key |-> "artist", default |-> Unknown, padding |-> 0, func |-> ""],
    [cls |-> "FormatCode", code |-> "B", column |-> <<"A", "l", "b", "u", "m">>,
     key |-> "album", default |-> Unknown, padding |-> 0, func |-> ""],
    [cls |-> "TitleFormatCode", code |-> "T", column |-> <<"T", "r", "a", "c", "k">>,
     key |-> "title", default |-> Unknown, padding |-> 0, func |-> ""],
    [cls |-> "NumFormatCode", code |-> "N", column |-> <<"#">>,
     key |-> "track", default |-> <<"0", "0">>, padding |-> 2, func |-> ""],
    [cls |-> "NumFormatCode", code |-> "D", column |-> <<"#">>,
     key |-> "disc", default |-> <<"0">>, padding |-> 0, func |-> ""],
    [cls |-> "FormatCode", code |-> "Y", column |-> <<"Y", "e", "a", "r">>,
     key |-> "date", default |-> <<"?">>, padding |-> 0, func |-> ""],
    [cls |-> "FormatCode", code |-> "G", column |-> <<"G", "e", "n", "r", "e">>,
     key |-> "genre", default |-> Unknown, padding |-> 0, func |-> ""],
    [cls |-> "PathFormatCode", code |-> "P", column |-> <<"P", "a", "t", "h">>,
     key |-> "file", default |-> Unknown, padding |-> 0, func |-> "dirname"],
    [cls |-> "PathFormatCode", code |-> "F", column |-> <<"F", "i", "l", "e">>,
     key |-> "file", default |-> Unknown, padding |-> 0, func |-> "basename"],
    [cls |-> "FormatCode", code |-> "S", column |-> <<"S", "t", "r", "e", "a", "m">>,
     key |-> "name", default |-> Unknown, padding |-> 0, func |-> ""],
    [cls |-> "LenFormatCode", code |-> "L", column |-> <<"L", "e", "n">>,
     key |-> "time", default |-> <<"?">>, padding |-> 0, func |-> ""],
    [cls |-> "ElapsedFormatCode", code |-> "E", column |-> None,
     key |-> "songpos", default |-> <<"?">>, padding |-> 0, func |-> ""] >>

\* replace_map: code -> its definition.
replace_map == [c \in {formatcodes[i].code : i \in 1..Len(formatcodes)} |->
    (CHOOSE fc \in {formatcodes[i] : i \in 1..Len(formatcodes)} : fc.code = c)]

\* replace_expr = "%[ABTNDYGPFSLE]": whether it matches text at position i.
replace_expr(text, i) ==
    i < Len(text) /\ text[i] = "%" /\ text[i + 1] \in DOMAIN replace_map

-----------------------------------------------------------------------------
(* Rendering.  A format call returns [exc, val, tdefault]: the exception it   *)
(* raised ("" for none), the string it returned, and the Title definition's  *)
(* default field as the call leaves it.                                      *)

\* FormatCode.format, reading `default` as self.default.
FormatCode_format(fc, default, it) ==
    IF fc.key \in DOMAIN it THEN it[fc.key] ELSE default

\* NumFormatCode.format padding every number to the track number's width.
NumFormatCode_format_fixed_width(fc, it) ==
    zfill(FormatCode_format(fc, fc.default, it), 2)

NumFormatCode_format(fc, it) ==
    zfill(FormatCode_format(fc, fc.default, it), fc.padding)

PathFormatCode_format(fc, it) ==
    IF fc.func = "dirname" THEN dirname(FormatCode_format(fc, fc.default, it))
    ELSE basename(FormatCode_format(fc, fc.default, it))

\* The default TitleFormatCode.format assigns before it escapes it.
TitleDefault(path) == IF full_path(path) THEN path ELSE basename(path)

\* TitleFormatCode.format: item['file'] raises KeyError without the key; else
\* self.default is overwritten and the inherited lookup reads it.
TitleFormatCode_format(fc, it, tdef) ==
    IF "file" \notin DOMAIN it
    THEN [exc |-> "KeyError", val |-> <<>>, tdefault |-> tdef]
    ELSE LET default == escape_html(TitleDefault(it["file"]))
         IN  [exc |-> "", val |-> FormatCode_format(fc, default, it), tdefault |-> default]

LenFormatCode_format(fc, it) ==
    LET time == FormatCode_format(fc, fc.default, it)
    IN  IF isdigit(time) THEN convert_time(int(time)) ELSE time

ElapsedFormatCode_format(fc, it) ==
    IF "status:time" \notin DOMAIN it THEN <<"%", "E">>
    ELSE LET time == it["status:time"]
             elapsed_time == IF time # <<>> THEN partition(time, ":")[1] ELSE fc.default
         IN  IF isdigit(elapsed_time) THEN convert_time(int(elapsed_time)) ELSE elapsed_time

\* format_code.format(item): the method of the definition's class.
format_code_format(fc, it, tdef) ==
    IF fc.cls = "TitleFormatCode" THEN TitleFormatCode_format(fc, it, tdef)
    ELSE [exc |-> "",
          val |-> CASE fc.cls = "FormatCode" -> FormatCode_format(fc, fc.default, it)
                    [] fc.cls = "NumFormatCode" -> NumFormatCode_format(fc, it)
                    [] fc.cls = "PathFormatCode" -> PathFormatCode_format(fc, it)
                    [] fc.cls = "LenFormatCode" -> LenFormatCode_format(fc, it)
                    [] fc.cls = "ElapsedFormatCode" -> ElapsedFormatCode_format(fc, it),
          tdefault |-> tdef]

\* Whether _format_substrings takes text for a bracketed segment.
has_brackets(text) == startswith(text, <<"{">>) /\ endswith(text, <<"}">>)

\* replace_expr.sub(formatter, text) from position i on, acc the text built so
\* far: every match is replaced by formatter's return, left to right, and the
\* first exception formatter raises ends the substitution.
RECURSIVE sub_formatter(_, _, _, _, _)

\* formatter(m) for the code matched at position i: EmptyBrackets in a
\* bracketed segment when the item lacks the code's key, else the code's format.
formatter(text, i, it, tdef) ==
    IF has_brackets(text) /\ replace_map[text[i + 1]].key \notin DOMAIN it
    THEN [exc |-> "EmptyBrackets", val |-> <<>>, tdefault |-> tdef]
    ELSE format_code_format(replace_map[text[i + 1]], it, tdef)

\* The substitution after formatter has returned or raised r for the match at i.
sub_formatter_matched(text, i, it, acc, r) ==
    IF r.exc # "" THEN r
    ELSE sub_formatter(text, i + 2, it, acc \o r.val, r.tdefault)

sub_formatter(text, i, it, acc, tdef) ==
    IF i > Len(text) THEN [exc |-> "", val |-> acc, tdefault |-> tdef]
    ELSE IF replace_expr(text, i)
    THEN sub_formatter_matched(text, i, it, acc, formatter(text, i, it, tdef))
    ELSE sub_formatter(text, i + 1, it, acc \o <<text[i]>>, tdef)

\* What _format_substrings makes of r, the substitution's end: "" when
\* EmptyBrackets was raised, the text without its braces for a bracketed segment.
format_substrings_return(text, r) ==
    IF r.exc = "EmptyBrackets" THEN [exc |-> "", val |-> <<>>, tdefault |-> r.tdefault]
    ELSE IF r.exc # "" THEN r
    ELSE IF has_brackets(text)
         THEN [r EXCEPT !.val = SubSeq(r.val, 2, Len(r.val) - 1)]
         ELSE r

_format_substrings(text, it, tdef) ==
    format_substrings_return(text, sub_formatter(text, 1, it, <<>>, tdef))

\* "".join(_format_substrings(sub, item) for sub in substrings), from the k-th
\* on; an exception in a segment ends the join.
RECURSIVE join_format_substrings(_, _, _, _, _)

join_format_substrings_next(subs, k, it, acc, r) ==
    IF r.exc # "" THEN r
    ELSE join_format_substrings(subs, k + 1, it, acc \o r.val, r.tdefault)

join_format_substrings(subs, k, it, acc, tdef) ==
    IF k > Len(subs) THEN [exc |-> "", val |-> acc, tdefault |-> tdef]
    ELSE join_format_substrings_next(subs, k, it, acc, _format_substrings(subs[k], it, tdef))

\* misc.escape_html(text) if use_escape_html else text
format_one_return(r, escape) ==
    IF r.exc = "" /\ escape THEN [r EXCEPT !.val = escape_html(r.val)] ELSE r

_format_one(subs, it, escape, tdef) ==
    format_one_return(join_format_substrings(subs, 1, it, <<>>, tdef), escape)

\* The loop leaving the closing brace out of the segment it appends.
RECURSIVE return_substrings_loop_no_sep2(_, _)
return_substrings_loop_no_sep2(subs, end) ==
    IF Len(end) = 0 THEN subs
    ELSE LET p1 == partition(end, "{")
             subs1 == Append(subs, p1[1])
         IN  IF Len(p1[3]) = 0 THEN Append(subs1, p1[2])
             ELSE LET p2 == partition(p1[3], "}")
                  IN  return_substrings_loop_no_sep2(Append(subs1, p1[2] \o p2[1]), p2[3])

\* _return_substrings: the while loop, `end` the text left to split.
RECURSIVE return_substrings_loop(_, _)
return_substrings_loop(subs, end) ==
    IF Len(end) = 0 THEN subs
    ELSE LET p1 == partition(end, "{")
             subs1 == Append(subs, p1[1])
         IN  IF Len(p1[3]) = 0 THEN Append(subs1, p1[2])
             ELSE LET p2 == partition(p1[3], "}")
                  IN  return_substrings_loop(Append(subs1, p1[2] \o p2[1] \o p2[2]), p2[3])

_return_substrings(fmt) == return_substrings_loop(<<>>, fmt)

parse(fmt, it, escape, tdef) == _format_one(_return_substrings(fmt), it, escape, tdef)

-----------------------------------------------------------------------------
(* Inputs *)

\* Longest template, in tokens, among the templates enumerated.
MaxTokens == 4

\* Most keys an item of the per-code renders holds.
MaxKeys == 2

\* Longest template, in characters, given to _return_substrings alone.
MaxSplitLen == 5

\* Every concatenation of at most n of the tokens.
RECURSIVE TemplatesOf(_, _)
TemplatesOf(tokens, n) ==
    IF n = 0 THEN {<<>>}
    ELSE LET shorter == TemplatesOf(tokens, n - 1)
         IN  shorter \cup {t \o k : t \in shorter, k \in tokens}

TemplateTokens == {<<"{">>, <<"}">>, <<"%">>, <<"x">>, <<"%", "T">>, <<"%", "D">>}

SplitTokens == {<<"{">>, <<"}">>, <<"a">>}

DiscTemplate == <<"{", "D", "i", "s", "c", " ", "%", "D", "}">>

\* Each code alone, bare and bracketed, and the templates the documentation shows.
CodeTemplates ==
    {<<"%", c>> : c \in DOMAIN replace_map}
    \cup {<<"{", "%", c, "}">> : c \in DOMAIN replace_map}
    \cup {DiscTemplate, <<"%", "A", " ", "-", " ", "%", "T">>,
          <<"%", "A", "{", "-", "%", "T", "}", " ", "{", "%", "L", "}">>}

ItemKeys == {"artist", "album", "title", "track", "disc", "date", "genre", "file",
             "name", "time", "songpos", "status:time"}

\* The values a key is given.
ItemValues(k) ==
    CASE k = "artist" -> {<<"B", "a", "c", "h">>}
      [] k = "title" -> {<<"t", "&", "<">>}
      [] k = "track" -> {<<"7">>}
      [] k = "disc" -> {<<"3">>}
      [] k = "file" -> {<<"d", "/", "f", "&">>, <<"f", "t", "p", ":", "/", "/", "h", "&">>}
      [] k = "time" -> {<<"7", "5">>, <<"-", "1">>}
      [] k = "status:time" -> {<<>>, <<"7", "5", ":", "9">>, <<"x">>}
      [] OTHER -> {<<"v">>}

\* The items holding at most n keys, all among keys.
ItemsOver(keys, n) ==
    UNION {{it \in [d -> UNION {ItemValues(k) : k \in d}] : \A k \in d : it[k] \in ItemValues(k)}
           : d \in {d \in SUBSET keys : Cardinality(d) <= n}}

CoreKeys == {"title", "file", "disc"}

CoreItems == ItemsOver(CoreKeys, Cardinality(CoreKeys))

NoItem == [k \in {} |-> <<>>]

NoOutcome == [exc |-> "", val |-> <<>>]

NoCall == [inst |-> "", hit |-> FALSE, exc |-> "", val |-> <<>>]

-----------------------------------------------------------------------------
(* parse and _return_substrings *)

IdleRender ==
    /\ format = <<>>
    /\ item = NoItem
    /\ use_escape_html = FALSE
    /\ substrings = <<>>
    /\ outcome = NoOutcome

IdleCache ==
    /\ cf = [_format |-> <<>>, _escape |-> FALSE]
    /\ meta = NoItem
    /\ made = {}
    /\ _cache = NoItem
    /\ renders = NoItem
    /\ returned = NoItem
    /\ last = NoCall

IdleColumns ==
    /\ columns = [_format |-> <<>>, sub_formatters |-> <<>>, columns_names |-> <<>>]
    /\ yielded = <<>>

IdleThreads == th = NoItem

\* The module is loaded and parse is about to be called on one of the inputs.
InitParse(templates, items) ==
    /\ format \in templates
    /\ item \in items
    /\ use_escape_html \in BOOLEAN
    /\ pc = "parse"
    /\ substrings = <<>>
    /\ outcome = NoOutcome
    /\ title_default = Unknown
    /\ IdleCache /\ IdleColumns /\ IdleThreads

\* parse(format, item, use_escape_html)
ParseReturns(r) ==
    /\ outcome' = [exc |-> r.exc, val |-> r.val]
    /\ title_default' = r.tdefault

Parse ==
    /\ pc = "parse"
    /\ substrings' = _return_substrings(format)
    /\ ParseReturns(parse(format, item, use_escape_html, title_default))
    /\ pc' = "done"
    /\ UNCHANGED <<format, item, use_escape_html>>
    /\ UNCHANGED <<cacheVars, columnVars, th>>

InitRender == InitParse(TemplatesOf(TemplateTokens, MaxTokens), CoreItems)

SpecRender == InitRender /\ [][Parse]_vars

InitCodes == InitParse(CodeTemplates, ItemsOver(ItemKeys, MaxKeys))

SpecCodes == InitCodes /\ [][Parse]_vars

InitSplit ==
    /\ format \in TemplatesOf(SplitTokens, MaxSplitLen)
    /\ item = NoItem
    /\ use_escape_html = FALSE
    /\ pc = "split"
    /\ substrings = <<>>
    /\ outcome = NoOutcome
    /\ title_default = Unknown
    /\ IdleCache /\ IdleColumns /\ IdleThreads

\* _return_substrings(format)
ReturnSubstrings ==
    /\ pc = "split"
    /\ substrings' = _return_substrings(format)
    /\ pc' = "done"
    /\ UNCHANGED <<format, item, use_escape_html, outcome, title_default>>
    /\ UNCHANGED <<cacheVars, columnVars, th>>

SpecSplit == InitSplit /\ [][ReturnSubstrings]_vars

-----------------------------------------------------------------------------
(* Properties of parse and _return_substrings *)

Escaped(text) == IF use_escape_html THEN escape_html(text) ELSE text

\* Whether text holds a recognized %code whose key the item lacks.
AbsentCode(text, it) ==
    \E i \in 1..Len(text) :
        replace_expr(text, i) /\ replace_map[text[i + 1]].key \notin DOMAIN it

\* A bracketed segment without its two braces.
Inner(seg) == SubSeq(seg, 2, Len(seg) - 1)

\* C1: every bracketed segment of the template renders, without error, as the
\* empty string when it holds a recognized code whose key the item lacks and
\* else as its substituted text without the two braces; the segments beside it
\* render as they do alone, the output being the concatenation of the renderings.
C1_ConditionalSuppression ==
    pc = "done" =>
        /\ \A k \in 1..Len(substrings) :
               has_brackets(substrings[k]) =>
                   /\ _format_substrings(substrings[k], item, Unknown).exc = ""
                   /\ _format_substrings(substrings[k], item, Unknown).val =
                          IF AbsentCode(substrings[k], item) THEN <<>>
                          ELSE sub_formatter(Inner(substrings[k]), 1, item, <<>>, Unknown).val
        /\ outcome.exc = "" =>
               outcome.val = Escaped(join([k \in 1..Len(substrings) |->
                                 _format_substrings(substrings[k], item, Unknown).val]))

\* C2: parse ends with a string, never with an exception, for every template
\* and every item, the items without a file key included.
C2_Totality == pc = "done" => outcome.exc = ""

\* C4 as stated: "{Disc %D}" renders a disc of 3 as "Disc 03".
C4_DiscPaddedLikeTrack ==
    (pc = "done" /\ format = DiscTemplate /\ "disc" \in DOMAIN item /\ item["disc"] = <<"3">>)
        => outcome = [exc |-> "", val |-> <<"D", "i", "s", "c", " ", "0", "3">>]

\* C4 amended: "{Disc %D}" renders a disc of 3 as "Disc 3", the code D padding
\* to its own width of 0, and "%N" renders a track of 7 as "07", the code N
\* padding to its width of 2.
C4_DiscNotPadded ==
    pc = "done" =>
        /\ (format = DiscTemplate /\ "disc" \in DOMAIN item /\ item["disc"] = <<"3">>)
               => outcome = [exc |-> "", val |-> <<"D", "i", "s", "c", " ", "3">>]
        /\ (format = <<"%", "N">> /\ "track" \in DOMAIN item /\ item["track"] = <<"7">>)
               => outcome = [exc |-> "", val |-> <<"0", "7">>]

C4_Witness ==
    /\ pc = "done"
    /\ format = DiscTemplate
    /\ "disc" \in DOMAIN item /\ item["disc"] = <<"3">>
    /\ outcome.val = <<"D", "i", "s", "c", " ", "3">>

\* C5: outside brackets, the default the Title code derives from the file of an
\* item without a title is inserted as a title of that text would be: escaped
\* once, with the whole string, when use_escape_html is set, and not at all
\* when it is not.
C5_EscapedExactlyOnce ==
    (/\ pc = "done"
     /\ outcome.exc = ""
     /\ "file" \in DOMAIN item
     /\ "title" \notin DOMAIN item
     /\ Find(format, "{") = 0)
        => outcome.val = parse(format, ("title" :> TitleDefault(item["file"])) @@ item,
                               use_escape_html, Unknown).val

\* Position of the first "{" of fmt that no "}" follows, 0 when there is none.
Unmatched(fmt) == FindFrom(fmt, "{", RFind(fmt, "}") + 1)

\* C6: in a template with a "{" that no "}" follows, the text from that "{" on
\* is no bracketed segment and renders without error as literal text, its codes
\* substituted and none suppressed, and the output of parse ends with it.
C6_UnmatchedIsLiteral ==
    (pc = "done" /\ Unmatched(format) # 0) =>
        LET tail == SubSeq(format, Unmatched(format), Len(format))
            literal == sub_formatter(tail, 1, item, <<>>, Unknown)
        IN  /\ ~has_brackets(tail)
            /\ substrings[Len(substrings)] = tail
            /\ literal.exc = ""
            /\ outcome.exc = "" => endswith(outcome.val, Escaped(literal.val))

NoBrackets(fmt) == Find(fmt, "{") = 0 /\ Find(fmt, "}") = 0

\* C9 as stated: the segments concatenate to the template, the empty template
\* gives no segment and a template without brackets the one segment it is.
C9_SingleSegment ==
    pc = "done" =>
        /\ join(substrings) = format
        /\ format = <<>> => substrings = <<>>
        /\ (format # <<>> /\ NoBrackets(format)) => substrings = <<format>>

\* C9 amended: the segments concatenate to the template; the empty template
\* gives no segment, and a non-empty template without brackets gives two: the
\* template itself, then an empty segment.
C9_RoundTrip ==
    pc = "done" =>
        /\ join(substrings) = format
        /\ format = <<>> => substrings = <<>>
        /\ (format # <<>> /\ NoBrackets(format)) => substrings = <<format, <<>>>>

C9_Witness ==
    \/ pc = "done" /\ format = <<"a", "a">> /\ substrings = <<format, <<>>>>
    \/ pc = "done" /\ format = <<"}", "{", "{", "a", "}">> /\ Len(substrings) = 2

-----------------------------------------------------------------------------
(* CachingFormatter *)

\* Most times _format_func is let run for one instance.
MaxRenders == 2

\* The item instances a run may create, each once.
Instances == {"song1", "song2"}

CacheTemplates == {<<"%", "T">>, <<"x", "{", "%", "T", "}">>}

CacheKeys == {"title", "file"}

\* The metadata an instance is given: a title or none, a local file or none.
CacheItems ==
    {it \in ItemsOver(CacheKeys, Cardinality(CacheKeys)) :
        "file" \in DOMAIN it => ~full_path(it["file"])}

CacheValues(k) == {it[k] : it \in {x \in CacheItems : k \in DOMAIN x}}

\* f without the entry of i.
Without(f, i) == [j \in DOMAIN f \ {i} |-> f[j]]

\* CachingFormatter.__init__(format, escape)
CachingFormatter(fmt, escape) == [_format |-> _return_substrings(fmt), _escape |-> escape]

\* A CachingFormatter has been constructed; no item exists yet.
InitCache ==
    /\ \E fmt \in CacheTemplates, escape \in BOOLEAN : cf = CachingFormatter(fmt, escape)
    /\ meta = NoItem
    /\ made = {}
    /\ _cache = NoItem
    /\ renders = NoItem
    /\ returned = NoItem
    /\ last = NoCall
    /\ title_default = Unknown
    /\ pc = "cache"
    /\ IdleRender /\ IdleColumns /\ IdleThreads

\* The caller creates an item instance.
NewItem(i, it) ==
    /\ i \notin made
    /\ made' = made \cup {i}
    /\ meta' = (i :> it) @@ meta
    /\ renders' = (i :> 0) @@ renders
    /\ returned' = (i :> {}) @@ returned
    /\ UNCHANGED <<cf, _cache, last, title_default, pc>>
    /\ UNCHANGED <<renderVars, columnVars, th>>

\* The caller changes the metadata of a live instance in place.
SetKey(i, k, v) ==
    /\ i \in DOMAIN meta
    /\ meta' = [meta EXCEPT ![i] = (k :> v) @@ @]
    /\ UNCHANGED <<cf, made, _cache, renders, returned, last, title_default, pc>>
    /\ UNCHANGED <<renderVars, columnVars, th>>

DelKey(i, k) ==
    /\ i \in DOMAIN meta
    /\ k \in DOMAIN meta[i]
    /\ meta' = [meta EXCEPT ![i] = Without(@, k)]
    /\ UNCHANGED <<cf, made, _cache, renders, returned, last, title_default, pc>>
    /\ UNCHANGED <<renderVars, columnVars, th>>

\* The last reference to an instance goes: the WeakKeyDictionary drops its entry.
Drop(i) ==
    /\ i \in DOMAIN meta
    /\ meta' = Without(meta, i)
    /\ _cache' = Without(_cache, i)
    /\ renders' = Without(renders, i)
    /\ returned' = Without(returned, i)
    /\ UNCHANGED <<cf, made, last, title_default, pc>>
    /\ UNCHANGED <<renderVars, columnVars, th>>

\* A call that found no entry and ran _format_func, which ended as r.
Miss(r) == [hit |-> FALSE, exc |-> r.exc, val |-> r.val, tdefault |-> r.tdefault]

\* CachingFormatter.format always running _format_func, the cache never read.
CachingFormatter_format_uncached(cache, i, it, tdef) ==
    Miss(_format_one(cf._format, it, cf._escape, tdef))

\* CachingFormatter.format(item) for instance i holding metadata it: the cached
\* result when there is one, else what _format_func returns or raises.
CachingFormatter_format(cache, i, it, tdef) ==
    IF i \in DOMAIN cache
    THEN [hit |-> TRUE, exc |-> "", val |-> cache[i], tdefault |-> tdef]
    ELSE Miss(_format_one(cf._format, it, cf._escape, tdef))

\* format(item): a result computed is stored; an exception leaves the cache as it was.
FormatReturns(i, r) ==
    /\ _cache' = IF r.hit \/ r.exc # "" THEN _cache ELSE (i :> r.val) @@ _cache
    /\ renders' = IF r.hit THEN renders ELSE [renders EXCEPT ![i] = @ + 1]
    /\ returned' = IF r.exc # "" THEN returned ELSE [returned EXCEPT ![i] = @ \cup {r.val}]
    /\ last' = [inst |-> i, hit |-> r.hit, exc |-> r.exc, val |-> r.val]
    /\ title_default' = r.tdefault

Format(i) ==
    /\ i \in DOMAIN meta
    /\ renders[i] < MaxRenders
    /\ FormatReturns(i, CachingFormatter_format(_cache, i, meta[i], title_default))
    /\ UNCHANGED <<cf, meta, made, pc>>
    /\ UNCHANGED <<renderVars, columnVars, th>>

NextCache ==
    \/ \E i \in Instances, it \in CacheItems : NewItem(i, it)
    \/ \E i \in DOMAIN meta, k \in CacheKeys : \E v \in CacheValues(k) : SetKey(i, k, v)
    \/ \E i \in DOMAIN meta, k \in CacheKeys : DelKey(i, k)
    \/ \E i \in DOMAIN meta : Drop(i)
    \/ \E i \in DOMAIN meta : Format(i)

SpecCache == InitCache /\ [][NextCache]_vars

\* What _format_func gives for the metadata instance i holds now.
RenderNow(i) == _format_one(cf._format, meta[i], cf._escape, title_default)

\* C3: _format_func runs at most once for an item instance while it lives, and
\* every format call for the instance returns the same string.
C3_RenderedOnce ==
    \A i \in DOMAIN meta : renders[i] <= 1 /\ Cardinality(returned[i]) <= 1

\* C7: every format call for a live instance returns the string the first one
\* returned, whatever was changed in its metadata since; an instance not
\* cached is rendered from the metadata it holds at the call; and an entry stays,
\* unchanged, for as long as its instance lives.
C7_NeverInvalidated ==
    [][/\ \A i \in DOMAIN meta' : Cardinality(returned'[i]) <= 1
       /\ \A i \in DOMAIN _cache' : i \in DOMAIN meta' /\ returned'[i] = {_cache'[i]}
       /\ \A i \in DOMAIN meta :
             /\ (i \in DOMAIN _cache /\ i \in DOMAIN meta')
                    => (i \in DOMAIN _cache' /\ _cache'[i] = _cache[i])
             /\ (i \notin DOMAIN _cache /\ last' # last /\ last'.inst = i)
                    => (/\ ~last'.hit
                        /\ last'.exc = RenderNow(i).exc
                        /\ last'.val = RenderNow(i).val
                        /\ last'.exc = "" => (i \in DOMAIN _cache' /\ _cache'[i] = last'.val))
             /\ (i \in DOMAIN _cache /\ last' # last /\ last'.inst = i)
                    => (last'.hit /\ last'.exc = "" /\ last'.val = _cache[i])]_vars

\* A call answered from the cache with a string the metadata of the instance
\* would no longer render.
C7_Witness ==
    /\ last.inst \in DOMAIN meta
    /\ last.hit
    /\ RenderNow(last.inst).exc = ""
    /\ RenderNow(last.inst).val # last.val

-----------------------------------------------------------------------------
(* ColumnFormatting *)

\* Longest composite template, in tokens.
MaxColumnTokens == 3

ColumnTokens == {<<"|">>, <<"#">>, <<"{">>, <<"}">>, <<"%", "N">>, <<"%", "T">>, <<"%", "E">>}

\* str.split(c): the pieces between the c's, one more than there are c's.
RECURSIVE split(_, _)
split(s, c) ==
    LET p == partition(s, c)
    IN  IF p[2] = <<>> THEN <<s>> ELSE <<p[1]>> \o split(p[3], c)

\* str.replace(old, new): the occurrences of old found left to right, none
\* overlapping another, each replaced by new; what is put in is not looked at again.
RECURSIVE replace(_, _, _)
replace(s, old, new) ==
    IF Len(s) < Len(old) THEN s
    ELSE IF startswith(s, old) THEN new \o replace(SubSeq(s, Len(old) + 1, Len(s)), old, new)
    ELSE <<Head(s)>> \o replace(Tail(s), old, new)

\* replace_format(m): the column label of the code matched; re.sub puts
\* nothing in for a label of None.
replace_format(code) ==
    IF replace_map[code].column = None THEN <<>> ELSE replace_map[code].column

\* replace_expr.sub(replace_format, text) from position i on.
RECURSIVE sub_replace_format(_, _, _)
sub_replace_format(text, i, acc) ==
    IF i > Len(text) THEN acc
    ELSE IF replace_expr(text, i)
    THEN sub_replace_format(text, i + 2, acc \o replace_format(text[i + 1]))
    ELSE sub_replace_format(text, i + 1, acc \o <<text[i]>>)

\* ColumnFormatting._parse_column_names
_parse_column_names(fmt) ==
    LET parts == split(fmt, "|")
    IN  [k \in 1..Len(parts) |->
            replace(replace(replace(sub_replace_format(parts[k], 1, <<>>),
                                    <<"{">>, <<>>), <<"}">>, <<>>), <<"#", "#">>, <<"#">>)]

\* ColumnFormatting.__init__(multi_columns_format)
ColumnFormatting(fmt) ==
    LET parts == split(fmt, "|")
    IN  [_format |-> fmt,
         sub_formatters |-> [k \in 1..Len(parts) |-> CachingFormatter(parts[k], TRUE)],
         columns_names |-> _parse_column_names(fmt)]

\* ColumnFormatting.__len__
ColumnFormatting_len(c) == Len(c.columns_names)

Min(a, b) == IF a <= b THEN a ELSE b

\* A composite template is about to be given to ColumnFormatting.
InitColumns ==
    /\ \E fmt \in TemplatesOf(ColumnTokens, MaxColumnTokens) :
           columns = [_format |-> fmt, sub_formatters |-> <<>>, columns_names |-> <<>>]
    /\ yielded = <<>>
    /\ pc = "new"
    /\ title_default = Unknown
    /\ IdleRender /\ IdleCache /\ IdleThreads

Construct ==
    /\ pc = "new"
    /\ columns' = ColumnFormatting(columns._format)
    /\ pc' = "iter"
    /\ UNCHANGED <<yielded, title_default, renderVars, cacheVars, th>>

\* __iter__: zip(columns_names, sub_formatters) yields its next pair.
IterNext ==
    /\ pc = "iter"
    /\ Len(yielded) < Min(Len(columns.columns_names), Len(columns.sub_formatters))
    /\ yielded' = Append(yielded, <<columns.columns_names[Len(yielded) + 1],
                                    columns.sub_formatters[Len(yielded) + 1]>>)
    /\ UNCHANGED <<columns, pc, title_default, renderVars, cacheVars, th>>

\* zip is exhausted.
IterStop ==
    /\ pc = "iter"
    /\ Len(yielded) = Min(Len(columns.columns_names), Len(columns.sub_formatters))
    /\ pc' = "done"
    /\ UNCHANGED <<columns, yielded, title_default, renderVars, cacheVars, th>>

NextColumns == Construct \/ IterNext \/ IterStop

SpecColumns == InitColumns /\ [][NextColumns]_vars

\* s with every run of "#" made a single "#".
RECURSIVE CollapseHashes(_)
CollapseHashes(s) ==
    IF Len(s) < 2 THEN s
    ELSE IF s[1] = "#" /\ s[2] = "#" THEN CollapseHashes(Tail(s))
    ELSE <<Head(s)>> \o CollapseHashes(Tail(s))

NoBraces(s) == SelectSeq(s, LAMBDA c : c \notin {"{", "}"})

\* C8: iteration yields one (label, formatter) pair per "|"-separated
\* sub-template, in order, and len() is their number; each label is its
\* sub-template with the codes replaced by their column labels, the braces
\* removed and every doubled "#" collapsed, so no label holds "##".
C8_ColumnLabels ==
    pc = "done" =>
        LET parts == split(columns._format, "|")
        IN  /\ Len(yielded) = Len(parts)
            /\ ColumnFormatting_len(columns) = Len(parts)
            /\ \A k \in 1..Len(yielded) :
                   /\ yielded[k][2] = CachingFormatter(parts[k], TRUE)
                   /\ yielded[k][1] =
                          CollapseHashes(NoBraces(sub_replace_format(parts[k], 1, <<>>)))
                   /\ \A j \in 1..(Len(yielded[k][1]) - 1) :
                          ~(yielded[k][1][j] = "#" /\ yielded[k][1][j + 1] = "#")

-----------------------------------------------------------------------------
(* Renders of %T that share the Title definition *)

Threads == {"render1", "render2"}

TitleItems == ItemsOver(CacheKeys, Cardinality(CacheKeys))

\* Each thread is about to call TitleFormatCode.format on its own item.
InitTitle ==
    /\ th \in [Threads -> {[pc |-> "file", item |-> it, path |-> <<>>, exc |-> "", ret |-> <<>>]
                           : it \in TitleItems}]
    /\ title_default = Unknown
    /\ pc = "title"
    /\ IdleRender /\ IdleCache /\ IdleColumns

\* path = item['file']
ReadFile(t) ==
    /\ th[t].pc = "file"
    /\ th' = IF "file" \in DOMAIN th[t].item
             THEN [th EXCEPT ![t].path = th[t].item["file"], ![t].pc = "default"]
             ELSE [th EXCEPT ![t].exc = "KeyError", ![t].pc = "done"]
    /\ UNCHANGED <<title_default, pc, renderVars, cacheVars, columnVars>>

\* self.default = path if full_path else os.path.basename(path)
SetDefault(t) ==
    /\ th[t].pc = "default"
    /\ title_default' = TitleDefault(th[t].path)
    /\ th' = [th EXCEPT ![t].pc = "escape"]
    /\ UNCHANGED <<pc, renderVars, cacheVars, columnVars>>

\* self.default = misc.escape_html(self.default)
EscapeDefault(t) ==
    /\ th[t].pc = "escape"
    /\ title_default' = escape_html(title_default)
    /\ th' = [th EXCEPT ![t].pc = "super"]
    /\ UNCHANGED <<pc, renderVars, cacheVars, columnVars>>

\* return super().format(item)
SuperFormat(t) ==
    /\ th[t].pc = "super"
    /\ th' = [th EXCEPT ![t].ret = FormatCode_format(replace_map["T"], title_default, th[t].item),
                        ![t].pc = "done"]
    /\ UNCHANGED <<title_default, pc, renderVars, cacheVars, columnVars>>

NextTitle == \E t \in Threads : ReadFile(t) \/ SetDefault(t) \/ EscapeDefault(t) \/ SuperFormat(t)

SpecTitle == InitTitle /\ [][NextTitle]_vars

\* C10: a render of %T returns what its own item alone determines, its title
\* or else the escaped default derived from its own file, whatever the other
\* render does meanwhile; and the renders over, the Title definition is as the
\* table was built.
C10_DefaultIsLocal ==
    /\ \A t \in Threads :
           (th[t].pc = "done" /\ th[t].exc = "") =>
               th[t].ret = TitleFormatCode_format(replace_map["T"], th[t].item, Unknown).val
    /\ (\A t \in Threads : th[t].pc = "done") => title_default = Unknown

====
